---------------------------- MODULE Spec2Model ----------------------------
(***************************************************************************)
(* Job lifecycle engine of the image-generation service:                   *)
(*   - the worker processor and its completion poller                      *)
(*     (src/workers/imageGenerationWorker.ts),                             *)
(*   - the requeue classifier shouldRequeueJob (src/unnamed/part_001).     *)
(*                                                                         *)
(* Progress values are held in thirds of a percent, so that the poller's   *)
(* 50 + (attempts / 120) * 40 = 50 + attempts / 3 is an integer.           *)
(***************************************************************************)
EXTENDS Integers, Sequences, FiniteSets, TLC

VARIABLES
    \* ---- one run of the worker processor ----
    wpc,            \* position of the processor
    progress,       \* last value accepted by job.updateProgress (thirds of a percent)
    thrown,         \* the error raised by the step that failed (NoError if none)
    failedReason,   \* the error the processor rethrew to the queue
    wresult,        \* the value the processor returned
    templateLoaded, \* fs.readFile and JSON.parse succeeded
    submitted,      \* the POST /prompt was issued
    promptId,       \* result.prompt_id of the submission
    attempts,       \* the poller's attempts counter
    queries,        \* number of GET /history requests issued
    sleeps,         \* number of 5 second sleeps of the poller
    waited,         \* seconds slept by the poller
    lastResponse,   \* what the backend answered to the last status query
    lastOutputs,    \* jobData.outputs of the last status answer
    woutputs,       \* the value waitForComfyUICompletion returned
    runningOnly,    \* every status query so far reported the job still running
    errorSeen,      \* some status query reported status_str = 'error'
    caught,         \* the error the poller's catch block caught in the last attempt
    \* ---- one evaluation of the requeue classifier ----
    cJob,           \* the failed job under evaluation
    cNow,           \* Date.now() at the evaluation
    cOpts,          \* the merged options
    cVerdict,       \* what shouldRequeueJob returned
    \* ---- the queue and the requeue sweeps ----
    queue,          \* the jobs of the image-generation queue
    clock,          \* Date.now()
    produced,       \* number of jobs the producer has added
    ticks,          \* number of times the clock has advanced
    sOpts,          \* the merged options of the sweeps
    sweep,          \* the locals of each run of requeueFailedJobs
    sweepsStarted,  \* number of sweeps started
    \* ---- one call of injectWorkflowParameters ----
    iFile,          \* the workflow as JSON.parse read it from the file
    iWorkflow,      \* the object handed to injectWorkflowParameters, as it is now
    iName,          \* job.data.workflow_name
    iInputs,        \* job.data.inputs
    iResult         \* what the call returned or threw

wvars == <<wpc, progress, thrown, failedReason, wresult, templateLoaded,
           submitted, promptId, attempts, queries, sleeps, waited,
           lastResponse, lastOutputs, woutputs, runningOnly, errorSeen, caught>>
cvars == <<cJob, cNow, cOpts, cVerdict>>
svars == <<queue, clock, produced, ticks, sOpts, sweep, sweepsStarted>>
ivars == <<iFile, iWorkflow, iName, iInputs, iResult>>
vars == <<wvars, cvars, svars, ivars>>

---------------------------------------------------------------------------
\* Program constants of the poller.

maxAttempts == 120

PollIntervalSeconds == 5

\* job.updateProgress takes percents; the model holds thirds of a percent.
Thirds(p) == 3 * p

Min(a, b) == IF a <= b THEN a ELSE b

---------------------------------------------------------------------------
\* Errors: new Error(message) as [kind, detail, num]; num is the number the
\* message carries (an HTTP status, the seconds of the timeout), 0 if none.

Err(kind, detail, num) == [kind |-> kind, detail |-> detail, num |-> num]

NoError == Err("none", "none", 0)

\* A rejected job.updateProgress (the queue connection failed, the job is gone).
ProgressError == Err("updateProgress rejected", "none", 0)

WorkflowNotFound == Err("Workflow nao encontrado", "workflow_name", 0)

WorkflowSyntaxError == Err("SyntaxError", "JSON.parse", 0)

InjectionError == Err("Falha ao processar parametros do workflow", "TypeError", 0)

FetchFailed == Err("TypeError", "fetch failed", 0)

ApiError(status) == Err("ComfyUI API Error", "response.text()", status)

NoPromptId == Err("ComfyUI nao retornou um prompt_id valido", "none", 0)

HistoryError(status) == Err("Erro ao consultar historico", "none", status)

GenericComfyMessage == "Erro desconhecido no ComfyUI"

\* status.messages?.[0]?.[1] of an error answer; "" stands for an absent one too
\* (undefined and "" are both falsy).
StatusMessages == {"", "execution_error: boom"}

ComfyError(msg) ==
    Err("ComfyUI Error", IF msg = "" THEN GenericComfyMessage ELSE msg, 0)

PollTimeout == Err("Timeout", "ComfyUI nao completou o processamento", maxAttempts * PollIntervalSeconds)

EmptyOutput == Err("Falha ao processar resultados", "Nenhum output recebido do ComfyUI", 0)

\* HTTP statuses of a response that is not ok.
BadStatuses == {400, 404, 500, 503}

---------------------------------------------------------------------------
\* Backend outputs: [present, groups]; groups are the entries of jobData.outputs
\* in the object's key order, each with its node id and an image list that may
\* be missing.

Images(list) == [isArray |-> TRUE, list |-> list]

NoImages == [isArray |-> FALSE, list |-> <<>>]

Group(node, images) == [node |-> node, images |-> images]

Outputs(groups) == [present |-> TRUE, groups |-> groups]

NoOutputs == [present |-> FALSE, groups |-> <<>>]

OutputSamples ==
    { NoOutputs,
      Outputs(<<>>),
      Outputs(<< Group("9", Images(<<"a.png", "b.png">>)), Group("12", NoImages) >>),
      Outputs(<< Group("9", Images(<<>>)), Group("10", Images(<<"c.png">>)) >>),
      Outputs(<< Group("9", Images(<<"a.png", "b.png">>)), Group("10", Images(<<"c.png">>)) >>) }

RECURSIVE GroupImages(_, _)
GroupImages(node, list) ==
    IF list = <<>> THEN <<>>
    ELSE << [filename |-> Head(list), node_id |-> node] >>
         \o GroupImages(node, Tail(list))

RECURSIVE CollectImages(_)
CollectImages(groups) ==
    IF groups = <<>> THEN <<>>
    ELSE LET g == Head(groups)
         IN  (IF g.images.isArray THEN GroupImages(g.node, g.images.list) ELSE <<>>)
             \o CollectImages(Tail(groups))

\* Mutant: a group without an image list is taken for a missing output.
processComfyUIOutputs_StrictGroups(outputs) ==
    IF \/ ~outputs.present
       \/ \E i \in DOMAIN outputs.groups : ~outputs.groups[i].images.isArray
    THEN [ok |-> FALSE, error |-> EmptyOutput, images |-> <<>>]
    ELSE [ok |-> TRUE, error |-> NoError, images |-> CollectImages(outputs.groups)]

\* processComfyUIOutputs: the images, or the error it throws.
processComfyUIOutputs(outputs) ==
    IF ~outputs.present
    THEN [ok |-> FALSE, error |-> EmptyOutput, images |-> <<>>]
    ELSE [ok |-> TRUE, error |-> NoError, images |-> CollectImages(outputs.groups)]

NoResult == [status |-> "none", prompt_id |-> "none", images |-> <<>>]

NoPrompt == "none"

PromptIds == {"p-1"}

---------------------------------------------------------------------------
\* The processor's catch block: logs and rethrows the error it caught.

\* Mutant: the catch block swallows the error.
processorCatch_Swallow(error) == NoError

processorCatch(error) == error

Throw(error) ==
    /\ wpc' = "failed"
    /\ thrown' = error
    /\ failedReason' = processorCatch(error)

Continue(pc) ==
    /\ wpc' = pc
    /\ UNCHANGED <<thrown, failedReason>>

\* await job.updateProgress(p), then go on at pc; the call may reject.
Report(p, pc) ==
    \E accepted \in BOOLEAN :
        IF accepted
        THEN progress' = p /\ Continue(pc)
        ELSE UNCHANGED progress /\ Throw(ProgressError)

pollvars == <<attempts, queries, sleeps, waited, lastResponse, lastOutputs,
              woutputs, runningOnly, errorSeen, caught>>

\* job.updateProgress(10)
Begin ==
    /\ wpc = "start"
    /\ Report(Thirds(10), "load")
    /\ UNCHANGED <<wresult, templateLoaded, submitted, promptId, pollvars, cvars, svars, ivars>>

\* fs.readFile, JSON.parse, job.updateProgress(20)
LoadWorkflow ==
    /\ wpc = "load"
    /\ \E file \in {"missing", "malformed", "json"} :
         CASE file = "missing" ->
                /\ Throw(WorkflowNotFound)
                /\ UNCHANGED <<progress, templateLoaded>>
           [] file = "malformed" ->
                /\ Throw(WorkflowSyntaxError)
                /\ UNCHANGED <<progress, templateLoaded>>
           [] file = "json" ->
                /\ templateLoaded' = TRUE
                /\ Report(Thirds(20), "inject")
    /\ UNCHANGED <<wresult, submitted, promptId, pollvars, cvars, svars, ivars>>

\* injectWorkflowParameters, job.updateProgress(30)
Inject ==
    /\ wpc = "inject"
    /\ \E injected \in BOOLEAN :
         IF injected
         THEN Report(Thirds(30), "submit")
         ELSE Throw(InjectionError) /\ UNCHANGED progress
    /\ UNCHANGED <<wresult, templateLoaded, submitted, promptId, pollvars, cvars, svars, ivars>>

\* POST /prompt, the checks of the response, job.updateProgress(50)
Submit ==
    /\ wpc = "submit"
    /\ submitted' = TRUE
    /\ \/ /\ Throw(FetchFailed)
          /\ UNCHANGED <<progress, promptId>>
       \/ \E status \in BadStatuses :
            /\ Throw(ApiError(status))
            /\ UNCHANGED <<progress, promptId>>
       \/ /\ Throw(NoPromptId)
          /\ UNCHANGED <<progress, promptId>>
       \/ \E id \in PromptIds :
            /\ promptId' = id
            /\ Report(Thirds(50), "poll")
    /\ UNCHANGED <<wresult, templateLoaded, pollvars, cvars, svars, ivars>>

---------------------------------------------------------------------------
\* waitForComfyUICompletion

\* Mutant: the loop gives up one attempt early.
LoopContinues_OneShort(a) == a < maxAttempts - 1

\* Mutant: the loop allows one attempt too many.
LoopContinues_Inclusive(a) == a <= maxAttempts

\* while (attempts < maxAttempts)
LoopContinues(a) == a < maxAttempts

\* Mutant: the catch block rethrows one attempt too late.
AttemptsExhausted_Late(a) == a > maxAttempts

\* if (attempts >= maxAttempts) throw error
AttemptsExhausted(a) == a >= maxAttempts

\* Mutant: the interpolation forgets its base of 50.
PollProgress_NoBase(a) == Min((a * Thirds(40)) \div maxAttempts, Thirds(89))

\* Math.min(50 + (attempts / maxAttempts) * 40, 89), in thirds of a percent
PollProgress(a) == Min(Thirds(50) + (a * Thirds(40)) \div maxAttempts, Thirds(89))

Sleep ==
    /\ sleeps' = sleeps + 1
    /\ waited' = waited + PollIntervalSeconds

\* Mutant: the function returns undefined after the loop instead of throwing.
LoopHead_FallsThrough(a) ==
    IF LoopContinues(a) THEN Continue("poll") ELSE Continue("extract")

\* The loop condition with attempts = a; the throw after the loop when it fails.
LoopHead(a) ==
    IF LoopContinues(a) THEN Continue("poll") ELSE Throw(PollTimeout)

\* The end of the try block: sleep, attempts++, back to the loop condition.
TryEnd ==
    /\ Sleep
    /\ attempts' = attempts + 1
    /\ caught' = NoError
    /\ LoopHead(attempts + 1)

\* The catch block: attempts++, rethrow when exhausted, else sleep and loop.
PollCatch(error) ==
    /\ attempts' = attempts + 1
    /\ caught' = error
    /\ IF AttemptsExhausted(attempts + 1)
       THEN Throw(error) /\ UNCHANGED <<sleeps, waited>>
       ELSE Sleep /\ LoopHead(attempts + 1)

\* One GET /history/<promptId> and the answer the backend gave.
Query(kind, outputs) ==
    /\ wpc = "poll"
    /\ queries' = queries + 1
    /\ lastResponse' = kind
    /\ lastOutputs' = outputs

\* history[promptId].status.completed: return jobData.outputs
PollCompleted ==
    /\ \E out \in OutputSamples :
         /\ Query("completed", out)
         /\ woutputs' = out
    /\ Continue("extract")
    /\ UNCHANGED <<progress, attempts, sleeps, waited, runningOnly, errorSeen,
                   caught, wresult, templateLoaded, submitted, promptId, cvars, svars, ivars>>

\* history[promptId].status.status_str === 'error': throw inside the try block
PollRemoteError ==
    /\ Query("error", NoOutputs)
    /\ errorSeen' = TRUE
    /\ runningOnly' = FALSE
    /\ \E msg \in StatusMessages : PollCatch(ComfyError(msg))
    /\ UNCHANGED <<progress, woutputs, wresult, templateLoaded, submitted,
                   promptId, cvars, svars, ivars>>

\* history[promptId] present, neither completed nor error: report the progress
PollRunning ==
    /\ Query("running", NoOutputs)
    /\ \E accepted \in BOOLEAN :
         IF accepted
         THEN progress' = PollProgress(attempts) /\ TryEnd
         ELSE UNCHANGED progress /\ PollCatch(ProgressError)
    /\ UNCHANGED <<runningOnly, errorSeen, woutputs, wresult, templateLoaded,
                   submitted, promptId, cvars, svars, ivars>>

\* history[promptId] absent: nothing to look at in this attempt
PollAbsent ==
    /\ Query("absent", NoOutputs)
    /\ runningOnly' = FALSE
    /\ TryEnd
    /\ UNCHANGED <<progress, errorSeen, woutputs, wresult, templateLoaded,
                   submitted, promptId, cvars, svars, ivars>>

\* fetch rejects, or the response is not ok
PollQueryFails ==
    /\ Query("queryFailed", NoOutputs)
    /\ runningOnly' = FALSE
    /\ \E e \in {FetchFailed} \cup {HistoryError(st) : st \in {500, 503}} :
         PollCatch(e)
    /\ UNCHANGED <<progress, errorSeen, woutputs, wresult, templateLoaded,
                   submitted, promptId, cvars, svars, ivars>>

\* job.updateProgress(90)
Extract ==
    /\ wpc = "extract"
    /\ Report(Thirds(90), "process")
    /\ UNCHANGED <<wresult, templateLoaded, submitted, promptId, pollvars, cvars, svars, ivars>>

\* processComfyUIOutputs, job.updateProgress(100), return
Complete ==
    /\ wpc = "process"
    /\ LET r == processComfyUIOutputs(woutputs)
       IN  IF ~r.ok
           THEN Throw(r.error) /\ UNCHANGED <<progress, wresult>>
           ELSE \E accepted \in BOOLEAN :
                  IF accepted
                  THEN /\ progress' = Thirds(100)
                       /\ Continue("done")
                       /\ wresult' = [status |-> "completed", prompt_id |-> promptId,
                                      images |-> r.images]
                  ELSE /\ Throw(ProgressError)
                       /\ UNCHANGED <<progress, wresult>>
    /\ UNCHANGED <<templateLoaded, submitted, promptId, pollvars, cvars, svars, ivars>>

---------------------------------------------------------------------------
\* Strings of the classifier are sequences of characters, so that
\* toLowerCase and includes are computed as the code computes them.

UpperCase == << "A", "B", "C", "D", "E", "F", "G", "H", "I", "J", "K", "L", "M",
                "N", "O", "P", "Q", "R", "S", "T", "U", "V", "W", "X", "Y", "Z" >>

LowerCase == << "a", "b", "c", "d", "e", "f", "g", "h", "i", "j", "k", "l", "m",
                "n", "o", "p", "q", "r", "s", "t", "u", "v", "w", "x", "y", "z" >>

LowerChar(c) ==
    IF \E i \in 1..Len(UpperCase) : UpperCase[i] = c
    THEN LowerCase[CHOOSE i \in 1..Len(UpperCase) : UpperCase[i] = c]
    ELSE c

\* String.prototype.toLowerCase
toLowerCase(s) == [i \in 1..Len(s) |-> LowerChar(s[i])]

\* String.prototype.includes
includes(s, t) ==
    \E i \in 0..(Len(s) - Len(t)) : SubSeq(s, i + 1, i + Len(t)) = t

\* String.prototype.substring(0, n)
substring0(s, n) == SubSeq(s, 1, Min(n, Len(s)))

\* const temporaryErrors
temporaryErrors ==
    <<
      (* "timeout" *)
      << "t", "i", "m", "e", "o", "u", "t" >>,
      (* "connection" *)
      << "c", "o", "n", "n", "e", "c", "t", "i", "o", "n" >>,
      (* "network" *)
      << "n", "e", "t", "w", "o", "r", "k" >>,
      (* "ECONNREFUSED" *)
      << "E", "C", "O", "N", "N", "R", "E", "F", "U", "S", "E", "D" >>,
      (* "ENOTFOUND" *)
      << "E", "N", "O", "T", "F", "O", "U", "N", "D" >>,
      (* "ETIMEDOUT" *)
      << "E", "T", "I", "M", "E", "D", "O", "U", "T" >>,
      (* "ComfyUI API Error (5" *)
      << "C", "o", "m", "f", "y", "U", "I", " ", "A", "P", "I", " ", "E", "r",
         "r", "o", "r", " ", "(", "5" >>,
      (* "Timeout waiting for ComfyUI" *)
      << "T", "i", "m", "e", "o", "u", "t", " ", "w", "a", "i", "t", "i", "n",
         "g", " ", "f", "o", "r", " ", "C", "o", "m", "f", "y", "U", "I" >>,
      (* "Erro ao consultar histórico" *)
      << "E", "r", "r", "o", " ", "a", "o", " ", "c", "o", "n", "s", "u", "l",
         "t", "a", "r", " ", "h", "i", "s", "t", "ó", "r", "i", "c", "o" >>
    >>

\* const permanentErrors
permanentErrors ==
    <<
      (* "Workflow não encontrado" *)
      << "W", "o", "r", "k", "f", "l", "o", "w", " ", "n", "ã", "o", " ", "e",
         "n", "c", "o", "n", "t", "r", "a", "d", "o" >>,
      (* "ComfyUI API Error (4" *)
      << "C", "o", "m", "f", "y", "U", "I", " ", "A", "P", "I", " ", "E", "r",
         "r", "o", "r", " ", "(", "4" >>,
      (* "bad anatomy" *)
      << "b", "a", "d", " ", "a", "n", "a", "t", "o", "m", "y" >>,
      (* "invalid input" *)
      << "i", "n", "v", "a", "l", "i", "d", " ", "i", "n", "p", "u", "t" >>,
      (* "malformed" *)
      << "m", "a", "l", "f", "o", "r", "m", "e", "d" >>
    >>

\* Failure reasons: the messages of the worker's own errors and of the queue.

\* "ETIMEDOUT while connecting"
ReasonEtimedout ==
    << "E", "T", "I", "M", "E", "D", "O", "U", "T", " ", "w", "h", "i", "l",
       "e", " ", "c", "o", "n", "n", "e", "c", "t", "i", "n", "g" >>

\* "Workflow não encontrado: fashion-sketch"
ReasonWorkflowMissing ==
    << "W", "o", "r", "k", "f", "l", "o", "w", " ", "n", "ã", "o", " ", "e",
       "n", "c", "o", "n", "t", "r", "a", "d", "o", ":", " ", "f", "a", "s",
       "h", "i", "o", "n", "-", "s", "k", "e", "t", "c", "h" >>

\* "Timeout: ComfyUI não completou o processamento em 600 segundos"
ReasonPollTimeout ==
    << "T", "i", "m", "e", "o", "u", "t", ":", " ", "C", "o", "m", "f", "y",
       "U", "I", " ", "n", "ã", "o", " ", "c", "o", "m", "p", "l", "e", "t",
       "o", "u", " ", "o", " ", "p", "r", "o", "c", "e", "s", "s", "a", "m",
       "e", "n", "t", "o", " ", "e", "m", " ", "6", "0", "0", " ", "s", "e",
       "g", "u", "n", "d", "o", "s" >>

\* "ComfyUI API Error (500): Internal Server Error"
ReasonApi500 ==
    << "C", "o", "m", "f", "y", "U", "I", " ", "A", "P", "I", " ", "E", "r",
       "r", "o", "r", " ", "(", "5", "0", "0", ")", ":", " ", "I", "n", "t",
       "e", "r", "n", "a", "l", " ", "S", "e", "r", "v", "e", "r", " ", "E",
       "r", "r", "o", "r" >>

\* "ComfyUI API Error (400): invalid prompt"
ReasonApi400 ==
    << "C", "o", "m", "f", "y", "U", "I", " ", "A", "P", "I", " ", "E", "r",
       "r", "o", "r", " ", "(", "4", "0", "0", ")", ":", " ", "i", "n", "v",
       "a", "l", "i", "d", " ", "p", "r", "o", "m", "p", "t" >>

\* "Erro ao consultar histórico: 503"
ReasonHistory503 ==
    << "E", "r", "r", "o", " ", "a", "o", " ", "c", "o", "n", "s", "u", "l",
       "t", "a", "r", " ", "h", "i", "s", "t", "ó", "r", "i", "c", "o", ":",
       " ", "5", "0", "3" >>

\* "ComfyUI Error: out of memory"
ReasonComfyError ==
    << "C", "o", "m", "f", "y", "U", "I", " ", "E", "r", "r", "o", "r", ":",
       " ", "o", "u", "t", " ", "o", "f", " ", "m", "e", "m", "o", "r", "y" >>

\* "Falha ao processar resultados: Nenhum output recebido do ComfyUI"
ReasonEmptyOutput ==
    << "F", "a", "l", "h", "a", " ", "a", "o", " ", "p", "r", "o", "c", "e",
       "s", "s", "a", "r", " ", "r", "e", "s", "u", "l", "t", "a", "d", "o",
       "s", ":", " ", "N", "e", "n", "h", "u", "m", " ", "o", "u", "t", "p",
       "u", "t", " ", "r", "e", "c", "e", "b", "i", "d", "o", " ", "d", "o",
       " ", "C", "o", "m", "f", "y", "U", "I" >>

\* "Workflow não encontrado: network-pattern"
ReasonWorkflowMissingNetwork ==
    << "W", "o", "r", "k", "f", "l", "o", "w", " ", "n", "ã", "o", " ", "e",
       "n", "c", "o", "n", "t", "r", "a", "d", "o", ":", " ", "n", "e", "t",
       "w", "o", "r", "k", "-", "p", "a", "t", "t", "e", "r", "n" >>

\* "ComfyUI API Error (400): request timeout"
ReasonApi400Timeout ==
    << "C", "o", "m", "f", "y", "U", "I", " ", "A", "P", "I", " ", "E", "r",
       "r", "o", "r", " ", "(", "4", "0", "0", ")", ":", " ", "r", "e", "q",
       "u", "e", "s", "t", " ", "t", "i", "m", "e", "o", "u", "t" >>

\* job.failedReason undefined: failureReason = ''
ReasonNone == <<>>

ReasonSamples ==
    { ReasonEtimedout,
      ReasonWorkflowMissing,
      ReasonPollTimeout,
      ReasonApi500,
      ReasonApi400,
      ReasonHistory503,
      ReasonComfyError,
      ReasonEmptyOutput,
      ReasonWorkflowMissingNetwork,
      ReasonApi400Timeout,
      ReasonNone }

---------------------------------------------------------------------------
\* The messages of the worker's own errors, as the queue stores them in
\* job.failedReason.

DigitChars == << "0", "1", "2", "3", "4", "5", "6", "7", "8", "9" >>

\* String(n) for n >= 0
RECURSIVE ToDigits(_)
ToDigits(n) ==
    IF n < 10 THEN << DigitChars[n + 1] >>
    ELSE ToDigits(n \div 10) \o << DigitChars[(n % 10) + 1] >>

\* `Workflow não encontrado: ${job.data.workflow_name}`
TextWorkflowNotFound ==
    << "W", "o", "r", "k", "f", "l", "o", "w", " ", "n", "ã", "o", " ",
       "e", "n", "c", "o", "n", "t", "r", "a", "d", "o", ":", " " >>

WorkflowNotFoundMessage(name) == TextWorkflowNotFound \o name

\* `ComfyUI API Error (${response.status}): ${errorData}`
TextApiError ==
    << "C", "o", "m", "f", "y", "U", "I", " ", "A", "P", "I", " ", "E",
       "r", "r", "o", "r", " ", "(" >>

\* the text between the status and the body
TextApiErrorSep ==
    << ")", ":", " " >>

ApiErrorMessage(status, body) ==
    TextApiError \o ToDigits(status) \o TextApiErrorSep \o body

\* `Erro ao consultar histórico: ${historyResponse.status}`
TextHistoryError ==
    << "E", "r", "r", "o", " ", "a", "o", " ", "c", "o", "n", "s", "u",
       "l", "t", "a", "r", " ", "h", "i", "s", "t", "ó", "r", "i", "c",
       "o", ":", " " >>

HistoryErrorMessage(status) == TextHistoryError \o ToDigits(status)

\* `ComfyUI Error: ${errorMsg}`
TextComfyError ==
    << "C", "o", "m", "f", "y", "U", "I", " ", "E", "r", "r", "o", "r",
       ":", " " >>

ComfyErrorMessage(msg) == TextComfyError \o msg

\* `Timeout: ComfyUI não completou o processamento em ${maxAttempts * 5} segundos`
TextTimeout ==
    << "T", "i", "m", "e", "o", "u", "t", ":", " ", "C", "o", "m", "f",
       "y", "U", "I", " ", "n", "ã", "o", " ", "c", "o", "m", "p", "l",
       "e", "t", "o", "u", " ", "o", " ", "p", "r", "o", "c", "e", "s",
       "s", "a", "m", "e", "n", "t", "o", " ", "e", "m", " " >>

\* the unit of the timeout message
TextSeconds ==
    << " ", "s", "e", "g", "u", "n", "d", "o", "s" >>

PollTimeoutMessage ==
    TextTimeout \o ToDigits(maxAttempts * PollIntervalSeconds) \o TextSeconds

\* `Falha ao processar resultados: ${error.message}`
EmptyOutputMessage ==
    << "F", "a", "l", "h", "a", " ", "a", "o", " ", "p", "r", "o", "c",
       "e", "s", "s", "a", "r", " ", "r", "e", "s", "u", "l", "t", "a",
       "d", "o", "s", ":", " ", "N", "e", "n", "h", "u", "m", " ", "o",
       "u", "t", "p", "u", "t", " ", "r", "e", "c", "e", "b", "i", "d",
       "o", " ", "d", "o", " ", "C", "o", "m", "f", "y", "U", "I" >>

\* job.data.workflow_name of the requests.

\* "fashion-sketch"
NameFashionSketch ==
    << "f", "a", "s", "h", "i", "o", "n", "-", "s", "k", "e", "t", "c",
       "h" >>

\* "pattern-generation"
NamePatternGeneration ==
    << "p", "a", "t", "t", "e", "r", "n", "-", "g", "e", "n", "e", "r",
       "a", "t", "i", "o", "n" >>

\* "network-pattern"
NameNetworkPattern ==
    << "n", "e", "t", "w", "o", "r", "k", "-", "p", "a", "t", "t", "e",
       "r", "n" >>

WorkflowNames == {NameFashionSketch, NamePatternGeneration, NameNetworkPattern}

\* response.text() of a submission that is not ok.

\* "Internal Server Error"
BodyInternalError ==
    << "I", "n", "t", "e", "r", "n", "a", "l", " ", "S", "e", "r", "v",
       "e", "r", " ", "E", "r", "r", "o", "r" >>

\* "invalid prompt"
BodyInvalidPrompt ==
    << "i", "n", "v", "a", "l", "i", "d", " ", "p", "r", "o", "m", "p",
       "t" >>

\* "request timeout"
BodyRequestTimeout ==
    << "r", "e", "q", "u", "e", "s", "t", " ", "t", "i", "m", "e", "o",
       "u", "t" >>

ErrorBodies == {BodyInternalError, BodyInvalidPrompt, BodyRequestTimeout}

\* status.messages[0][1] of an error answer
MessageOutOfMemory ==
    << "o", "u", "t", " ", "o", "f", " ", "m", "e", "m", "o", "r", "y" >>

WorkerMessages ==
    {PollTimeoutMessage, EmptyOutputMessage, ComfyErrorMessage(MessageOutOfMemory)}
      \cup {WorkflowNotFoundMessage(n) : n \in WorkflowNames}
      \cup {ApiErrorMessage(st, b) : st \in BadStatuses, b \in ErrorBodies}
      \cup {HistoryErrorMessage(st) : st \in {500, 503}}

---------------------------------------------------------------------------
\* Requeue classifier: the options, the failed job, shouldRequeueJob.
\* Times are milliseconds.

OneHour == 60 * 60 * 1000

defaultOptions ==
    [ maxAge |-> 24 * OneHour,
      maxRetries |-> 2,
      priorityBoost |-> TRUE,
      delayBeforeRequeue |-> 30000 ]

\* const opts = { ...defaultOptions, ...options }
MergeOptions(options) ==
    [ k \in DOMAIN defaultOptions |->
        IF k \in DOMAIN options THEN options[k] ELSE defaultOptions[k] ]

NoRequeueInfo == [present |-> FALSE, requeue_count |-> 0]

RequeueInfo(count) == [present |-> TRUE, requeue_count |-> count]

FailedJob(id, timestamp, info, reason) ==
    [id |-> id, timestamp |-> timestamp, requeue_info |-> info, failedReason |-> reason]

\* Math.round(a / b) for a >= 0
Round(a, b) == (2 * a + b) \div (2 * b)

\* job.data.requeue_info?.requeue_count || 0
RequeueCountOf(job) ==
    IF job.requeue_info.present THEN job.requeue_info.requeue_count ELSE 0

\* Mutant: the comparison of the age test is turned around.
TooOld_Reversed(jobAge, maxAge) == jobAge < maxAge

\* Mutant: the age check rejects at exactly maxAge.
TooOld_Inclusive(jobAge, maxAge) == jobAge >= maxAge

\* if (jobAge > options.maxAge)
TooOld(jobAge, maxAge) == jobAge > maxAge

\* Mutant: the budget check allows one resubmission too many.
BudgetExhausted_Strict(requeueCount, maxRetries) == requeueCount > maxRetries

\* if (requeueCount >= options.maxRetries)
BudgetExhausted(requeueCount, maxRetries) == requeueCount >= maxRetries

\* Mutant: the failure reason is compared without toLowerCase.
MatchesAny_CaseSensitive(failureReason, list) ==
    \E i \in 1..Len(list) : includes(failureReason, toLowerCase(list[i]))

\* list.some(error => failureReason.toLowerCase().includes(error.toLowerCase()))
MatchesAny(failureReason, list) ==
    \E i \in 1..Len(list) :
        includes(toLowerCase(failureReason), toLowerCase(list[i]))

Verdict(requeue, reason, num, text) ==
    [requeue |-> requeue, reason |-> reason, num |-> num, text |-> text]

NoVerdict == Verdict(FALSE, "none", 0, <<>>)

\* Mutant: the permanent list is consulted before the temporary list.
shouldRequeueJob_PermanentFirst(job, options, now) ==
    LET jobAge == now - job.timestamp
        requeueCount == RequeueCountOf(job)
        failureReason == job.failedReason
    IN  IF TooOld(jobAge, options.maxAge)
        THEN Verdict(FALSE, "Job muito antigo", Round(jobAge, OneHour), <<>>)
        ELSE IF BudgetExhausted(requeueCount, options.maxRetries)
        THEN Verdict(FALSE, "Maximo de re-enfileiramentos atingido", requeueCount, <<>>)
        ELSE IF MatchesAny(failureReason, permanentErrors)
        THEN Verdict(FALSE, "Erro permanente detectado", 0, substring0(failureReason, 100))
        ELSE IF MatchesAny(failureReason, temporaryErrors)
        THEN Verdict(TRUE, "Erro temporario detectado", 0, substring0(failureReason, 100))
        ELSE IF requeueCount = 0
        THEN Verdict(TRUE, "Primeira tentativa de re-enfileiramento para erro desconhecido", 0, <<>>)
        ELSE Verdict(FALSE, "Erro desconhecido ja foi re-enfileirado", requeueCount, <<>>)

\* Mutant: an unknown error is accepted a second time.
shouldRequeueJob_UnknownTwice(job, options, now) ==
    LET jobAge == now - job.timestamp
        requeueCount == RequeueCountOf(job)
        failureReason == job.failedReason
    IN  IF TooOld(jobAge, options.maxAge)
        THEN Verdict(FALSE, "Job muito antigo", Round(jobAge, OneHour), <<>>)
        ELSE IF BudgetExhausted(requeueCount, options.maxRetries)
        THEN Verdict(FALSE, "Maximo de re-enfileiramentos atingido", requeueCount, <<>>)
        ELSE IF MatchesAny(failureReason, temporaryErrors)
        THEN Verdict(TRUE, "Erro temporario detectado", 0, substring0(failureReason, 100))
        ELSE IF MatchesAny(failureReason, permanentErrors)
        THEN Verdict(FALSE, "Erro permanente detectado", 0, substring0(failureReason, 100))
        ELSE IF requeueCount <= 1
        THEN Verdict(TRUE, "Primeira tentativa de re-enfileiramento para erro desconhecido", 0, <<>>)
        ELSE Verdict(FALSE, "Erro desconhecido ja foi re-enfileirado", requeueCount, <<>>)

shouldRequeueJob(job, options, now) ==
    LET jobAge == now - job.timestamp
        requeueCount == RequeueCountOf(job)
        failureReason == job.failedReason
    IN  IF TooOld(jobAge, options.maxAge)
        THEN Verdict(FALSE, "Job muito antigo", Round(jobAge, OneHour), <<>>)
        ELSE IF BudgetExhausted(requeueCount, options.maxRetries)
        THEN Verdict(FALSE, "Maximo de re-enfileiramentos atingido", requeueCount, <<>>)
        ELSE IF MatchesAny(failureReason, temporaryErrors)
        THEN Verdict(TRUE, "Erro temporario detectado", 0, substring0(failureReason, 100))
        ELSE IF MatchesAny(failureReason, permanentErrors)
        THEN Verdict(FALSE, "Erro permanente detectado", 0, substring0(failureReason, 100))
        ELSE IF requeueCount = 0
        THEN Verdict(TRUE, "Primeira tentativa de re-enfileiramento para erro desconhecido", 0, <<>>)
        ELSE Verdict(FALSE, "Erro desconhecido ja foi re-enfileirado", requeueCount, <<>>)

\* Inputs of an evaluation.

MaxRequeueCount == 3

\* job.timestamp of the sample job, counted from an epoch that keeps the sums small.
SubmittedAt == 100 * OneHour

AgeSamples ==
    { 0, OneHour, 24 * OneHour - 1, 24 * OneHour, 24 * OneHour + 1, 25 * OneHour,
      2 * OneHour + 1, 8 * 24 * OneHour }

InfoSamples == {NoRequeueInfo} \cup {RequeueInfo(n) : n \in 1..MaxRequeueCount}

OptionSamples ==
    { [k \in {} |-> 0],
      [maxRetries |-> 0],
      [maxRetries |-> 1],
      [maxRetries |-> MaxRequeueCount],
      [maxAge |-> 2 * OneHour],
      [maxAge |-> 2 * OneHour, maxRetries |-> 1, priorityBoost |-> FALSE] }

\* The failed job, the time and the options of one evaluation.
ClassifierInputs ==
    \E info \in InfoSamples, reason \in ReasonSamples \cup WorkerMessages,
       age \in AgeSamples, options \in OptionSamples :
       /\ cJob = FailedJob("job-1", SubmittedAt, info, reason)
       /\ cNow = SubmittedAt + age
       /\ cOpts = MergeOptions(options)
       /\ cVerdict = NoVerdict

\* One call of shouldRequeueJob on the failed job.
Evaluate ==
    /\ cVerdict = NoVerdict
    /\ cVerdict' = shouldRequeueJob(cJob, cOpts, cNow)
    /\ UNCHANGED <<cJob, cNow, cOpts, wvars, svars, ivars>>

-----------------------------------------------------------------------------
\* Parameter injection (injectWorkflowParameters)

\* The nodes of a template: the keys of its prompt object.
NodeIds == {"3", "6", "7", "10", "11"}

\* A node: inputs may be missing, and inputs may or may not have a seed.
\* A text is the sequence of the pieces a template literal puts together.
WorkflowNode(present, class_type, hasInputs, text, hasSeed, seed) ==
    [ present |-> present, class_type |-> class_type, hasInputs |-> hasInputs,
      text |-> text, hasSeed |-> hasSeed, seed |-> seed ]

NoNode == WorkflowNode(FALSE, "none", FALSE, <<>>, FALSE, 0)

TextNode(text) == WorkflowNode(TRUE, "CLIPTextEncode", TRUE, <<text>>, FALSE, 0)

SamplerNode(seed) == WorkflowNode(TRUE, "KSampler", TRUE, <<>>, TRUE, seed)

\* A workflow as JSON.parse returns it: with the nodes under `prompt`
\* (wrapped) or at the top level, as `workflow.prompt || workflow` allows.
Workflow(wrapped, nodes) == [wrapped |-> wrapped, nodes |-> nodes]

SampleNodes ==
    [ id \in NodeIds |->
        CASE id = "3"  -> SamplerNode(5)
          [] id = "6"  -> TextNode("old prompt")
          [] id = "7"  -> TextNode("old negative")
          [] id = "10" -> SamplerNode(9)
          [] id = "11" -> WorkflowNode(TRUE, "RandomNoise", TRUE, <<>>, TRUE, 11) ]

WorkflowSamples ==
    { Workflow(TRUE, SampleNodes),
      Workflow(FALSE, SampleNodes),
      \* node 7 has no inputs
      Workflow(TRUE, [SampleNodes EXCEPT !["7"].hasInputs = FALSE]),
      \* node 6 has no inputs, node 7 is missing
      Workflow(TRUE, [SampleNodes EXCEPT !["6"].hasInputs = FALSE, !["7"] = NoNode]),
      \* a sampler without a seed, a sampler without inputs
      Workflow(TRUE, [SampleNodes EXCEPT !["3"].hasSeed = FALSE,
                                         !["10"].hasInputs = FALSE]) }

\* "model-visualization"
NameModelVisualization ==
    << "m", "o", "d", "e", "l", "-", "v", "i", "s", "u", "a", "l", "i",
       "z", "a", "t", "i", "o", "n" >>

InjectNames ==
    {NameFashionSketch, NamePatternGeneration, NameModelVisualization, NameNetworkPattern}

\* job.data.inputs: a text that is missing or empty is "", the seed may be
\* missing.
Inputs(prompt_text, negative_prompt, pattern_type, hasSeed, seed) ==
    [ prompt_text |-> prompt_text, prompt |-> "", negative_prompt |-> negative_prompt,
      pattern_type |-> pattern_type, colors |-> "", model_type |-> "",
      garment_description |-> "", hasSeed |-> hasSeed, seed |-> seed ]

SeedSamples == {0, 7, 42}

InputSamples ==
    { Inputs(t, n, pt, FALSE, 0) :
        t \in {"", "red dress"}, n \in {"", "blurry"}, pt \in {"", "geometric"} }
    \cup
    { Inputs(t, n, pt, TRUE, sd) :
        t \in {"", "red dress"}, n \in {"", "blurry"}, pt \in {"", "geometric"},
        sd \in SeedSamples }

\* a || b on texts
OrElse(a, b) == IF a # "" THEN a ELSE b

\* inputs.seed in a condition: a missing seed, 0 and NaN are falsy
Truthy(inputs) == inputs.hasSeed /\ inputs.seed # 0

\* parseInt(inputs.seed): an integer below 1e21 is read back as itself
parseInt(n) == n

\* Mutant: the copy is the template itself.
Clone_Shared(workflow) == [workflow |-> workflow, shared |-> TRUE]

\* JSON.parse(JSON.stringify(workflow)): a value that JSON.parse produced
\* is read back equal, as a new object.
Clone(workflow) == [workflow |-> workflow, shared |-> FALSE]

\* The assignments `prompt[id].inputs.text = text` of a case of the switch,
\* each under `if (processedWorkflow.prompt && processedWorkflow.prompt[id])`.
TextWrite(id, text) == [id |-> id, text |-> text]

TextWrites(workflowName, inputs) ==
    IF workflowName = NameFashionSketch
    THEN << TextWrite("6", << OrElse(inputs.prompt_text,
                                     OrElse(inputs.prompt, "fashion sketch")) >>),
            TextWrite("7", << OrElse(inputs.negative_prompt,
                                     "bad anatomy, low quality") >>) >>
    ELSE IF workflowName = NamePatternGeneration
    THEN << TextWrite("6", << OrElse(inputs.pattern_type, "floral"), " pattern, ",
                              OrElse(inputs.colors, "colorful"),
                              ", seamless, high quality" >>) >>
    ELSE IF workflowName = NameModelVisualization
    THEN << TextWrite("6", << OrElse(inputs.model_type, "female"), " model wearing ",
                              OrElse(inputs.garment_description, "fashionable clothing"),
                              ", professional photography" >>) >>
    ELSE IF inputs.prompt_text # ""
    THEN << TextWrite("6", << inputs.prompt_text >>) >>
    ELSE <<>>

\* The writes in order; a write into a node without inputs throws and
\* leaves the earlier writes in the object.
RECURSIVE ApplyWrites(_, _)
ApplyWrites(workflow, writes) ==
    IF writes = <<>> THEN [ok |-> TRUE, workflow |-> workflow]
    ELSE LET w == Head(writes)
             node == workflow.nodes[w.id]
         IN  IF ~(workflow.wrapped /\ node.present)
             THEN ApplyWrites(workflow, Tail(writes))
             ELSE IF ~node.hasInputs
             THEN [ok |-> FALSE, workflow |-> workflow]
             ELSE ApplyWrites([workflow EXCEPT !.nodes[w.id].text = w.text],
                              Tail(writes))

\* if (inputs.seed && ...)
SeedGiven(inputs) == Truthy(inputs)

\* Object.keys(prompt).forEach: the seed of every KSampler whose inputs have one
InjectSeed(workflow, inputs) ==
    IF SeedGiven(inputs) /\ workflow.wrapped
    THEN [ workflow EXCEPT !.nodes =
             [ id \in NodeIds |->
                 LET node == workflow.nodes[id]
                 IN  IF /\ node.present
                        /\ node.class_type = "KSampler"
                        /\ node.hasInputs
                        /\ node.hasSeed
                     THEN [node EXCEPT !.seed = parseInt(inputs.seed)]
                     ELSE node ] ]
    ELSE workflow

\* injectWorkflowParameters: what it returns or throws, and the object it
\* was given as the call leaves it.
injectWorkflowParameters(workflow, workflowName, inputs) ==
    LET processedWorkflow == Clone(workflow)
        texts == ApplyWrites(processedWorkflow.workflow, TextWrites(workflowName, inputs))
        final == IF texts.ok THEN InjectSeed(texts.workflow, inputs) ELSE texts.workflow
    IN  [ ok |-> texts.ok,
          error |-> IF texts.ok THEN NoError ELSE InjectionError,
          workflow |-> final,
          argument |-> IF processedWorkflow.shared THEN final ELSE workflow ]

NoInjection == [status |-> "none", error |-> NoError, workflow |-> Workflow(FALSE, SampleNodes)]

\* One call of injectWorkflowParameters by the processor.
InjectParameters ==
    /\ iResult.status = "none"
    /\ LET r == injectWorkflowParameters(iWorkflow, iName, iInputs)
       IN  /\ iResult' = [ status |-> IF r.ok THEN "returned" ELSE "failed",
                           error |-> r.error,
                           workflow |-> r.workflow ]
           /\ iWorkflow' = r.argument
    /\ UNCHANGED <<iFile, iName, iInputs, wvars, cvars, svars>>

InjectIdle ==
    /\ iFile = Workflow(FALSE, SampleNodes)
    /\ iWorkflow = iFile
    /\ iName = NameFashionSketch
    /\ iInputs = Inputs("", "", "", FALSE, 0)
    /\ iResult = NoInjection

InjectInputs ==
    /\ iFile \in WorkflowSamples
    /\ iWorkflow = iFile
    /\ iName \in InjectNames
    /\ iInputs \in InputSamples
    /\ iResult = NoInjection

-----------------------------------------------------------------------------
\* The queue and the requeue sweep (requeueFailedJobs)

\* Number of jobs the producer adds.
MaxOriginals == 1

\* Number of sweeps started.
MaxSweeps == 2

\* Number of times the clock advances.
MaxTicks == 3

\* The processes that run requeueFailedJobs.
Sweepers == {"A", "B"}

\* concurrency: 3
concurrency == 3

\* A job id: `comfyui-${workflow_name}-${Date.now()}` is the workflow name
\* and one stamp; `requeue-${job.id}-${Date.now()}` appends a stamp to the
\* stamps of job.id.
JobId(workflow, stamps) == [workflow |-> workflow, stamps |-> stamps]

NoId == JobId(<<>>, <<>>)

\* jobId: `comfyui-${data.workflow_name}-${Date.now()}`
ProducerJobId(workflow_name, t) == JobId(workflow_name, <<t>>)

\* jobId: `requeue-${job.id}-${Date.now()}`
RequeueJobId(id, t) == JobId(id.workflow, Append(id.stamps, t))

\* The id and the creation time of the producer's job a job id descends from.
OriginOf(id) == JobId(id.workflow, <<Head(id.stamps)>>)

OriginTimestamp(id) == Head(id.stamps)

\* data.requeue_info of a job the producer added
NoLineage ==
    [ present |-> FALSE,
      original_job_id |-> NoId,
      requeue_count |-> 0,
      requeue_timestamp |-> 0,
      original_failure_reason |-> <<>> ]

\* requeue_info: { original_job_id, requeue_count, requeue_timestamp,
\*                 original_failure_reason }
requeue_info(job, t) ==
    [ present |-> TRUE,
      original_job_id |-> job.id,
      requeue_count |-> RequeueCountOf(job) + 1,
      requeue_timestamp |-> t,
      original_failure_reason |-> job.failedReason ]

\* ImageGenerationJobData without requeue_info
JobData(workflow_name, t) ==
    [ workflow_name |-> workflow_name, inputs |-> "inputs", timestamp |-> t ]

JobOptions(n, priority, delay) ==
    [ attempts |-> n, priority |-> priority, delay |-> delay ]

\* defaultJobOptions.attempts and priority: data.priority || 0
producerOptions == JobOptions(3, 0, 0)

\* Mutant: the priority is raised whatever priorityBoost says.
newJobOptions_AlwaysBoost(opts) ==
    JobOptions(3, 1,
               IF opts.delayBeforeRequeue > 0 THEN opts.delayBeforeRequeue ELSE 0)

\* newJobOptions: attempts 3, priority 1 if priorityBoost, delay if
\* delayBeforeRequeue > 0
newJobOptions(opts) ==
    JobOptions(3,
               IF opts.priorityBoost THEN 1 ELSE 0,
               IF opts.delayBeforeRequeue > 0 THEN opts.delayBeforeRequeue ELSE 0)

\* A job of the queue. `run` is the number of the sweep that added it, 0
\* for the producer.
QueueJob(id, data, info, opts, t, run) ==
    [ id |-> id,
      name |-> "generate-comfyui-image",
      data |-> data,
      requeue_info |-> info,
      opts |-> opts,
      timestamp |-> t,
      state |-> IF opts.delay > 0 THEN "delayed" ELSE "waiting",
      failedReason |-> <<>>,
      run |-> run ]

HasId(q, id) == \E j \in q : j.id = id

\* queue.add: a job whose jobId is already in the queue is not added again.
Add(q, job) == IF HasId(q, job.id) THEN q ELSE q \cup {job}

\* Mutant: the removal takes the jobs derived from the job with it.
Remove_WithDerived(q, id) ==
    {j \in q : j.id # id /\ j.requeue_info.original_job_id # id}

\* Mutant: the removal takes every job of the lineage with it.
Remove_Lineage(q, id) == {j \in q : OriginOf(j.id) # OriginOf(id)}

\* job.remove()
Remove(q, id) == {j \in q : j.id # id}

\* queue.getFailed()
Failed(q) == {j \in q : j.state = "failed"}

Active(q) == {j \in q : j.state = "active"}

\* The orders in which getFailed can return the failed set.
Orderings(S) ==
    {f \in [1..Cardinality(S) -> S] : \A j \in S : \E i \in DOMAIN f : f[i] = j}

\* The workflows the producer is asked for.
SweepWorkflows == {NameFashionSketch}

\* The errors with which the worker fails a job here.
JobFailures(job) ==
    {PollTimeoutMessage, WorkflowNotFoundMessage(job.data.workflow_name)}

\* How far the clock advances in one step.
TickSizes == {12 * OneHour}

SweepOptionSamples ==
    { [k \in {} |-> 0],
      [priorityBoost |-> FALSE, delayBeforeRequeue |-> 0] }

\* The locals of one run of requeueFailedJobs.
Sweep(pc, run, failedJobs, idx, requeuedCount, skippedCount, shouldRequeue, jobId, log) ==
    [ pc |-> pc, run |-> run, failedJobs |-> failedJobs, idx |-> idx,
      requeuedCount |-> requeuedCount, skippedCount |-> skippedCount,
      shouldRequeue |-> shouldRequeue, jobId |-> jobId, log |-> log ]

SweepIdle == Sweep("idle", 0, <<>>, 1, 0, 0, NoVerdict, NoId, <<>>)

\* The job of the current iteration.
CurrentJob(s) == s.failedJobs[s.idx]

\* Mutant: the catch block of the iteration leaves the loop.
NextIteration_Abort(s, outcome) ==
    [ s EXCEPT !.pc = IF outcome = "error" THEN "done" ELSE "loop",
               !.idx = IF outcome = "error" THEN Len(s.failedJobs) + 1 ELSE s.idx + 1,
               !.requeuedCount = IF outcome = "requeued" THEN @ + 1 ELSE @,
               !.skippedCount = IF outcome = "skipped" THEN @ + 1 ELSE @,
               !.jobId = NoId,
               !.log = Append(@, outcome) ]

\* Mutant: the loop stays on the job it has just resubmitted.
NextIteration_SameJob(s, outcome) ==
    [ s EXCEPT !.pc = "loop",
               !.idx = IF outcome = "requeued" THEN @ ELSE @ + 1,
               !.requeuedCount = IF outcome = "requeued" THEN @ + 1 ELSE @,
               !.skippedCount = IF outcome # "requeued" THEN @ + 1 ELSE @,
               !.jobId = NoId,
               !.log = Append(@, outcome) ]

\* The end of one iteration: requeuedCount++ after the removal,
\* skippedCount++ in the else branch and in the catch block.
NextIteration(s, outcome) ==
    [ s EXCEPT !.pc = "loop",
               !.idx = @ + 1,
               !.requeuedCount = IF outcome = "requeued" THEN @ + 1 ELSE @,
               !.skippedCount = IF outcome # "requeued" THEN @ + 1 ELSE @,
               !.jobId = NoId,
               !.log = Append(@, outcome) ]

\* addImageGenerationJob(data)
Enqueue ==
    /\ produced < MaxOriginals
    /\ \E w \in SweepWorkflows :
         queue' = Add(queue, QueueJob(ProducerJobId(w, clock), JobData(w, clock),
                                      NoLineage, producerOptions, clock, 0))
    /\ produced' = produced + 1
    /\ UNCHANGED <<clock, ticks, sOpts, sweep, sweepsStarted, wvars, cvars, ivars>>

\* Time passes.
Tick ==
    /\ ticks < MaxTicks
    /\ \E d \in TickSizes : clock' = clock + d
    /\ ticks' = ticks + 1
    /\ UNCHANGED <<queue, produced, sOpts, sweep, sweepsStarted, wvars, cvars, ivars>>

\* The worker takes a job whose delay has passed.
StartJob ==
    /\ Cardinality(Active(queue)) < concurrency
    /\ \E j \in queue :
         /\ j.state \in {"waiting", "delayed"}
         /\ clock >= j.timestamp + j.opts.delay
         /\ queue' = (queue \ {j}) \cup {[j EXCEPT !.state = "active"]}
    /\ UNCHANGED <<clock, produced, ticks, sOpts, sweep, sweepsStarted, wvars, cvars, ivars>>

\* The processor returns.
CompleteJob ==
    /\ \E j \in Active(queue) :
         /\ clock > j.timestamp
         /\ queue' = (queue \ {j}) \cup {[j EXCEPT !.state = "completed"]}
    /\ UNCHANGED <<clock, produced, ticks, sOpts, sweep, sweepsStarted, wvars, cvars, ivars>>

\* The processor throws on the last of the job's attempts.
FailJob ==
    /\ \E j \in Active(queue) :
         /\ clock > j.timestamp
         /\ \E reason \in JobFailures(j) :
              queue' = (queue \ {j})
                         \cup {[j EXCEPT !.state = "failed", !.failedReason = reason]}
    /\ UNCHANGED <<clock, produced, ticks, sOpts, sweep, sweepsStarted, wvars, cvars, ivars>>

\* const failedJobs = await imageGenerationQueue.getFailed()
SweepStart(p) ==
    /\ sweep[p].pc \in {"idle", "done"}
    /\ sweepsStarted < MaxSweeps
    /\ sweepsStarted' = sweepsStarted + 1
    /\ \E failedJobs \in Orderings(Failed(queue)) :
         sweep' = [sweep EXCEPT ![p] =
                     Sweep("loop", sweepsStarted + 1, failedJobs, 1, 0, 0,
                           NoVerdict, NoId, <<>>)]
    /\ UNCHANGED <<queue, clock, produced, ticks, sOpts, wvars, cvars, ivars>>

InLoop(p) ==
    /\ sweep[p].pc = "loop"
    /\ sweep[p].idx <= Len(sweep[p].failedJobs)

\* A sweep that the caller starts only when no other sweep is running.
SweepStartSerial(p) ==
    /\ \A other \in Sweepers : sweep[other].pc \in {"idle", "done"}
    /\ SweepStart(p)

\* shouldRequeue.requeue is false: skippedCount++
SweepSkip(p) ==
    /\ InLoop(p)
    /\ LET s == sweep[p]
           shouldRequeue == shouldRequeueJob(CurrentJob(s), sOpts, clock)
       IN  /\ ~shouldRequeue.requeue
           /\ sweep' = [sweep EXCEPT ![p] =
                          NextIteration([s EXCEPT !.shouldRequeue = shouldRequeue],
                                        "skipped")]
    /\ UNCHANGED <<queue, clock, produced, ticks, sOpts, sweepsStarted, wvars, cvars, ivars>>

\* shouldRequeue.requeue is true and queue.add resolves.
SweepAdd(p) ==
    /\ InLoop(p)
    /\ LET s == sweep[p]
           job == CurrentJob(s)
           shouldRequeue == shouldRequeueJob(job, sOpts, clock)
           jobId == RequeueJobId(job.id, clock)
       IN  /\ shouldRequeue.requeue
           /\ queue' = Add(queue, QueueJob(jobId, job.data, requeue_info(job, clock),
                                           newJobOptions(sOpts), clock, s.run))
           /\ sweep' = [sweep EXCEPT ![p] =
                          [s EXCEPT !.pc = "remove",
                                    !.shouldRequeue = shouldRequeue,
                                    !.jobId = jobId]]
    /\ UNCHANGED <<clock, produced, ticks, sOpts, sweepsStarted, wvars, cvars, ivars>>

\* shouldRequeue.requeue is true and queue.add rejects: the catch block.
SweepAddFails(p) ==
    /\ InLoop(p)
    /\ LET s == sweep[p]
           shouldRequeue == shouldRequeueJob(CurrentJob(s), sOpts, clock)
       IN  /\ shouldRequeue.requeue
           /\ sweep' = [sweep EXCEPT ![p] =
                          NextIteration([s EXCEPT !.shouldRequeue = shouldRequeue],
                                        "error")]
    /\ UNCHANGED <<queue, clock, produced, ticks, sOpts, sweepsStarted, wvars, cvars, ivars>>

\* job.remove() resolves: requeuedCount++
SweepRemove(p) ==
    /\ sweep[p].pc = "remove"
    /\ queue' = Remove(queue, CurrentJob(sweep[p]).id)
    /\ sweep' = [sweep EXCEPT ![p] = NextIteration(sweep[p], "requeued")]
    /\ UNCHANGED <<clock, produced, ticks, sOpts, sweepsStarted, wvars, cvars, ivars>>

\* job.remove() rejects: the catch block.
SweepRemoveFails(p) ==
    /\ sweep[p].pc = "remove"
    /\ sweep' = [sweep EXCEPT ![p] = NextIteration(sweep[p], "error")]
    /\ UNCHANGED <<queue, clock, produced, ticks, sOpts, sweepsStarted, wvars, cvars, ivars>>

\* The process dies after queue.add resolved and before job.remove().
SweepCrash(p) ==
    /\ sweep[p].pc = "remove"
    /\ sweep' = [sweep EXCEPT ![p].pc = "crashed"]
    /\ UNCHANGED <<queue, clock, produced, ticks, sOpts, sweepsStarted, wvars, cvars, ivars>>

\* return { total, requeued, skipped }
SweepFinish(p) ==
    /\ sweep[p].pc = "loop"
    /\ sweep[p].idx > Len(sweep[p].failedJobs)
    /\ sweep' = [sweep EXCEPT ![p].pc = "done"]
    /\ UNCHANGED <<queue, clock, produced, ticks, sOpts, sweepsStarted, wvars, cvars, ivars>>

QueueIdle ==
    /\ queue = {}
    /\ clock = 0
    /\ produced = 0
    /\ ticks = 0
    /\ sOpts = defaultOptions
    /\ sweep = [p \in Sweepers |-> SweepIdle]
    /\ sweepsStarted = 0

WorkerInit ==
    /\ wpc = "start"
    /\ progress = 0
    /\ thrown = NoError
    /\ failedReason = NoError
    /\ wresult = NoResult
    /\ templateLoaded = FALSE
    /\ submitted = FALSE
    /\ promptId = NoPrompt
    /\ attempts = 0
    /\ queries = 0
    /\ sleeps = 0
    /\ waited = 0
    /\ lastResponse = "none"
    /\ lastOutputs = NoOutputs
    /\ woutputs = NoOutputs
    /\ runningOnly = TRUE
    /\ errorSeen = FALSE
    /\ caught = NoError

ClassifierIdle ==
    /\ cJob = FailedJob("none", 0, NoRequeueInfo, <<>>)
    /\ cNow = 0
    /\ cOpts = defaultOptions
    /\ cVerdict = NoVerdict

Init == WorkerInit /\ ClassifierIdle /\ QueueIdle /\ InjectIdle

Next ==
    \/ Begin
    \/ LoadWorkflow
    \/ Inject
    \/ Submit
    \/ PollCompleted
    \/ PollRemoteError
    \/ PollRunning
    \/ PollAbsent
    \/ PollQueryFails
    \/ Extract
    \/ Complete

Spec == Init /\ [][Next]_vars

\* The classifier alone: evaluations of failed jobs.
NextClassify == Evaluate

InitClassify == WorkerInit /\ ClassifierInputs /\ QueueIdle /\ InjectIdle

SpecClassify == InitClassify /\ [][NextClassify]_vars

InitSweep ==
    /\ WorkerInit
    /\ ClassifierIdle
    /\ queue = {}
    /\ clock = 0
    /\ produced = 0
    /\ ticks = 0
    /\ \E options \in SweepOptionSamples : sOpts = MergeOptions(options)
    /\ sweep = [p \in Sweepers |-> SweepIdle]
    /\ sweepsStarted = 0
    /\ InjectIdle

SweepStartAny == \E p \in Sweepers : SweepStart(p)
SweepSkipAny == \E p \in Sweepers : SweepSkip(p)
SweepAddAny == \E p \in Sweepers : SweepAdd(p)
SweepAddFailsAny == \E p \in Sweepers : SweepAddFails(p)
SweepRemoveAny == \E p \in Sweepers : SweepRemove(p)
SweepRemoveFailsAny == \E p \in Sweepers : SweepRemoveFails(p)
SweepFinishAny == \E p \in Sweepers : SweepFinish(p)

NextSweep ==
    \/ Enqueue
    \/ Tick
    \/ StartJob
    \/ CompleteJob
    \/ FailJob
    \/ SweepStartAny
    \/ SweepSkipAny
    \/ SweepAddAny
    \/ SweepAddFailsAny
    \/ SweepRemoveAny
    \/ SweepRemoveFailsAny
    \/ SweepFinishAny

SpecSweep == InitSweep /\ [][NextSweep]_vars

SweepCrashAny == \E p \in Sweepers : SweepCrash(p)

\* The sweeps with a process that can die between its two queue operations.
NextCrash ==
    \/ Enqueue
    \/ Tick
    \/ StartJob
    \/ CompleteJob
    \/ FailJob
    \/ SweepStartAny
    \/ SweepSkipAny
    \/ SweepAddAny
    \/ SweepAddFailsAny
    \/ SweepRemoveAny
    \/ SweepRemoveFailsAny
    \/ SweepCrashAny
    \/ SweepFinishAny

SpecCrash == InitSweep /\ [][NextCrash]_vars

SweepStartSerialAny == \E p \in Sweepers : SweepStartSerial(p)

\* The sweeps when the callers serialize them.
NextSerial ==
    \/ Enqueue
    \/ Tick
    \/ StartJob
    \/ CompleteJob
    \/ FailJob
    \/ SweepStartSerialAny
    \/ SweepSkipAny
    \/ SweepAddAny
    \/ SweepAddFailsAny
    \/ SweepRemoveAny
    \/ SweepRemoveFailsAny
    \/ SweepFinishAny

SpecSerial == InitSweep /\ [][NextSerial]_vars

\* The injector alone: calls of injectWorkflowParameters.
NextInject == InjectParameters

InitInject == WorkerInit /\ ClassifierIdle /\ QueueIdle /\ InjectInputs

SpecInject == InitInject /\ [][NextInject]_vars


---------------------------------------------------------------------------
\* Properties of the worker and its poller (checked under Spec).

TransientKinds == {"TypeError", "Erro ao consultar historico"}

\* C1: once a status query has reported an explicit error status, the
\* poller has failed with the remote-execution error and that query was the
\* last one.  The code catches the error in the poller's own catch block
\* and goes on polling.
C1_ErrorStatusFailsAtOnce ==
    errorSeen =>
        /\ wpc = "failed"
        /\ thrown.kind = "ComfyUI Error"
        /\ lastResponse = "error"

\* C2 as stated: when the 120 attempts are used up and no query reported
\* completed or an explicit error, the job has failed with the timeout error.
\* Runs whose last attempt had its progress report rejected (C8) are left
\* aside, so that what refutes the statement is a failed status query.
C2_ExhaustedIsTimeout ==
    (attempts >= maxAttempts /\ ~errorSeen /\ caught # ProgressError) =>
        (wpc = "failed" /\ thrown = PollTimeout)

\* C2 amended: when the 120 attempts are used up and no query reported
\* completed or an explicit error, the job has failed: with the timeout
\* error when the 120th attempt ended without an exception, and with the
\* exception the 120th attempt caught otherwise.
C2_ExhaustedFails ==
    (attempts >= maxAttempts /\ ~errorSeen) =>
        /\ wpc = "failed"
        /\ thrown = (IF caught = NoError THEN PollTimeout ELSE caught)
        /\ failedReason = thrown
        /\ wresult = NoResult

C2_Witness ==
    /\ attempts = maxAttempts
    /\ queries = maxAttempts
    /\ ~errorSeen
    /\ caught = NoError
    /\ failedReason = PollTimeout

\* C3: after k-1 < 120 answers that all said still running the poller
\* issues a k-th query; a query answered completed ends the poller at that
\* query with the backend's outputs; every progress value the poller
\* reports lies in [50, 90).
C3_CompletesAtKthQuery ==
    /\ []((queries > 0 /\ runningOnly /\ lastResponse = "running"
             /\ queries < maxAttempts)
            => (wpc = "poll" /\ attempts = queries))
    /\ [][(wpc = "poll" /\ lastResponse' = "completed")
            => /\ queries' = queries + 1
               /\ queries' = attempts + 1
               /\ wpc' = "extract"
               /\ woutputs' = lastOutputs'
               /\ thrown' = NoError]_vars
    /\ [][(wpc = "poll" /\ progress' # progress)
            => (Thirds(50) <= progress' /\ progress' < Thirds(90))]_vars

C3_Witness ==
    /\ wpc = "extract"
    /\ runningOnly
    /\ lastResponse = "completed"
    /\ queries = maxAttempts
    /\ woutputs.present
    /\ progress = Thirds(89)

\* C4: a status query that fails adds exactly 1 to attempts; the poller
\* goes on polling unless this was the last attempt, and then it fails with
\* the error of that query.
C4_TransientFailureContinues ==
    [][(wpc = "poll" /\ lastResponse' = "queryFailed")
         => /\ queries' = queries + 1
            /\ attempts' = attempts + 1
            /\ caught'.kind \in TransientKinds
            /\ IF attempts' < maxAttempts
               THEN wpc' = "poll" /\ thrown' = NoError
               ELSE /\ wpc' = "failed"
                    /\ thrown' = caught'
                    /\ failedReason' = caught']_vars

C4_Witness ==
    /\ lastResponse = "queryFailed"
    /\ attempts = maxAttempts
    /\ wpc = "failed"
    /\ failedReason = HistoryError(503)

\* C5: the poller issues at most 120 status queries and sleeps at most 120
\* times 5 seconds, 600 seconds in all, and is no longer polling once 120
\* queries are answered.
C5_BoundedPolling ==
    /\ queries <= maxAttempts
    /\ sleeps <= queries
    /\ waited = sleeps * PollIntervalSeconds
    /\ waited <= 600
    /\ (attempts >= maxAttempts => wpc # "poll")
    /\ (wpc = "poll" => attempts = queries)

C5_Witness ==
    /\ queries = maxAttempts
    /\ sleeps = maxAttempts
    /\ waited = 600
    /\ wpc = "failed"

\* C6: the progress values of a run never decrease, and a run that
\* completed reported 100 last.
C6_ProgressMonotone ==
    /\ [][progress' >= progress]_vars
    /\ [](wpc = "done" => progress = Thirds(100))

C6_Witness ==
    /\ wpc = "done"
    /\ attempts >= 2
    /\ lastResponse = "completed"
    /\ progress = Thirds(100)

\* C7: a step that throws ends the run failed with the error it threw,
\* nothing happens after it and no result is returned; the backend is
\* submitted to only with a loaded template and polled only with a prompt id.
C7_FailureAborts ==
    /\ [](submitted => templateLoaded)
    /\ [](queries > 0 => (submitted /\ promptId # NoPrompt))
    /\ []((thrown # NoError) <=> (wpc = "failed"))
    /\ [](wpc = "failed" => (failedReason = thrown /\ wresult = NoResult))
    /\ [](wresult # NoResult => (wpc = "done" /\ thrown = NoError))
    /\ [][wpc = "failed" => wvars' = wvars]_vars

C7_Witness ==
    /\ wpc = "failed"
    /\ failedReason = NoPromptId
    /\ submitted
    /\ queries = 0
    /\ progress = Thirds(30)

\* C8: a rejected progress report never makes the run fail.  The code awaits
\* every job.updateProgress inside the processor's try block with no guard.
C8_ProgressFailureNeverAborts ==
    ~(wpc = "failed" /\ thrown = ProgressError)

---------------------------------------------------------------------------
\* Properties of the classifier (checked under SpecClassify).

Evaluated == cVerdict # NoVerdict

JobAge == cNow - cJob.timestamp

\* C9: a failed job older than maxAge is rejected as too old whatever its
\* failure reason and resubmission count; one aged exactly maxAge, or less,
\* is not rejected as too old.
C9_AgeCheckFirst ==
    Evaluated =>
        /\ (JobAge > cOpts.maxAge) =>
              (~cVerdict.requeue /\ cVerdict.reason = "Job muito antigo")
        /\ (JobAge <= cOpts.maxAge) => (cVerdict.reason # "Job muito antigo")

C9_Witness ==
    /\ Evaluated
    /\ cOpts.maxAge = 24 * OneHour
    /\ JobAge = 25 * OneHour
    /\ cJob.failedReason = ReasonEtimedout
    /\ ~cJob.requeue_info.present
    /\ cVerdict.reason = "Job muito antigo"
    /\ cVerdict.num = 25

\* C10: a failed job whose resubmission count has reached maxRetries is
\* rejected whatever its failure reason; unless it is too old, the reason
\* given is the exhausted budget.
C10_BudgetBeforeReason ==
    (Evaluated /\ RequeueCountOf(cJob) >= cOpts.maxRetries) =>
        /\ ~cVerdict.requeue
        /\ IF JobAge > cOpts.maxAge
           THEN cVerdict.reason = "Job muito antigo"
           ELSE cVerdict.reason = "Maximo de re-enfileiramentos atingido"

C10_Witness ==
    /\ Evaluated
    /\ cOpts.maxRetries = 2
    /\ RequeueCountOf(cJob) = 2
    /\ JobAge = OneHour
    /\ cJob.failedReason = ReasonEtimedout
    /\ cVerdict.reason = "Maximo de re-enfileiramentos atingido"

WithinAgeAndBudget ==
    /\ Evaluated
    /\ JobAge <= cOpts.maxAge
    /\ RequeueCountOf(cJob) < cOpts.maxRetries

\* The worker's poll-timeout, 5xx submission and status-query messages, and
\* the example of the specification.
TransientMessages ==
    {ReasonEtimedout, PollTimeoutMessage}
      \cup {ApiErrorMessage(st, b) : st \in {500, 503}, b \in ErrorBodies}
      \cup {HistoryErrorMessage(st) : st \in {500, 503}}

\* C11: a failed job within age and budget whose failure reason contains a
\* transient-signal substring, in any case of letters, is accepted as a
\* temporary error; the worker's poll-timeout, 5xx submission and
\* status-query messages are such reasons.
C11_TemporaryAccepted ==
    (/\ WithinAgeAndBudget
     /\ \/ MatchesAny(cJob.failedReason, temporaryErrors)
        \/ cJob.failedReason \in TransientMessages)
    => /\ cVerdict.requeue
       /\ cVerdict.reason = "Erro temporario detectado"
       /\ cVerdict.text = cJob.failedReason

C11_Witness ==
    /\ Evaluated
    /\ cJob.failedReason = ReasonEtimedout
    /\ ~cJob.requeue_info.present
    /\ JobAge = OneHour
    /\ cOpts = defaultOptions
    /\ cVerdict.requeue
    /\ cVerdict.reason = "Erro temporario detectado"

\* C12: a failed job whose reason is the worker's template-not-found
\* message is rejected, whatever the template name, the age and the count.
\* A template name that contains a transient-signal substring makes the
\* temporary list match first.
C12_MissingWorkflowRejected ==
    (Evaluated /\ \E n \in WorkflowNames :
                     cJob.failedReason = WorkflowNotFoundMessage(n))
    => ~cVerdict.requeue

\* Reasons that match neither list.
UnknownMessages ==
    {ComfyErrorMessage(MessageOutOfMemory), EmptyOutputMessage, ReasonNone}

TiedMessages ==
    {ApiErrorMessage(400, BodyRequestTimeout), ApiErrorMessage(404, BodyRequestTimeout),
     WorkflowNotFoundMessage(NameNetworkPattern)}

\* C14: a failed job within age and budget whose failure reason matches
\* both lists is accepted as a temporary error.
C14_TieIsTemporary ==
    (/\ WithinAgeAndBudget
     /\ \/ /\ MatchesAny(cJob.failedReason, temporaryErrors)
           /\ MatchesAny(cJob.failedReason, permanentErrors)
        \/ cJob.failedReason \in TiedMessages)
    => /\ cVerdict.requeue
       /\ cVerdict.reason = "Erro temporario detectado"

C14_Witness ==
    /\ Evaluated
    /\ cJob.failedReason = ApiErrorMessage(400, BodyRequestTimeout)
    /\ RequeueCountOf(cJob) = 1
    /\ cOpts.maxRetries = 2
    /\ JobAge = 24 * OneHour
    /\ cVerdict.requeue
    /\ cVerdict.reason = "Erro temporario detectado"

Derived(q) == {j \in q : j.requeue_info.present}

\* C15: every derived job counts one resubmission per link of its chain,
\* and its original_job_id is the id of the producer's job the chain
\* started from.
C15_LineagePreserved ==
    \A d \in Derived(queue) :
        /\ d.requeue_info.requeue_count = Len(d.id.stamps) - 1
        /\ d.requeue_info.original_job_id = OriginOf(d.id)

\* C16: a derived job that failed is not accepted once more than maxAge
\* has passed since the producer added the job its chain started from.
C16_AgeFromOriginalSubmission ==
    \A p \in Sweepers :
        (/\ sweep[p].pc = "remove"
         /\ CurrentJob(sweep[p]).requeue_info.present)
        => clock - OriginTimestamp(CurrentJob(sweep[p]).id) <= sOpts.maxAge

\* The job sweeper p has just handed to queue.add.
AddedBy(p) == CHOOSE j \in queue' : j.id = sweep'[p].jobId

AddStep(p) == sweep[p].pc = "loop" /\ sweep'[p].pc = "remove"

RemoveStep(p) ==
    /\ sweep[p].pc = "remove"
    /\ sweep'[p].requeuedCount = sweep[p].requeuedCount + 1

\* C17: when queue.add resolves for an accepted job, one job with the new
\* id is in the queue, with the payload of the failed job, the lineage
\* block, 3 attempts, priority 1 exactly if priorityBoost and the delay
\* exactly if delayBeforeRequeue > 0, and the failed job is still there;
\* when job.remove resolves, the failed job is gone and nothing else is.
C17_ResubmissionEffect ==
    [][\A p \in Sweepers :
         /\ AddStep(p) =>
              LET job == CurrentJob(sweep[p])
                  new == AddedBy(p)
              IN  /\ Cardinality({j \in queue' : j.id = sweep'[p].jobId}) = 1
                  /\ sweep'[p].jobId = RequeueJobId(job.id, clock)
                  /\ new.name = job.name
                  /\ new.data = job.data
                  /\ new.requeue_info.present
                  /\ new.requeue_info.original_job_id = job.id
                  /\ new.requeue_info.requeue_count = RequeueCountOf(job) + 1
                  /\ new.requeue_info.requeue_timestamp = clock
                  /\ new.requeue_info.original_failure_reason = job.failedReason
                  /\ new.opts.attempts = 3
                  /\ new.opts.priority = (IF sOpts.priorityBoost THEN 1 ELSE 0)
                  /\ new.opts.delay > 0 <=> sOpts.delayBeforeRequeue > 0
                  /\ new.opts.delay > 0 => new.opts.delay = sOpts.delayBeforeRequeue
                  /\ new.timestamp = clock
                  /\ ~HasId(queue, new.id) =>
                       /\ queue' = queue \cup {new}
                       /\ new.state = (IF new.opts.delay > 0 THEN "delayed" ELSE "waiting")
                  /\ queue \subseteq queue'
         /\ RemoveStep(p) =>
              /\ ~HasId(queue', CurrentJob(sweep[p]).id)
              /\ queue' = {j \in queue : j.id # CurrentJob(sweep[p]).id}
      ]_vars

C17_Witness ==
    \E p \in Sweepers, d \in Derived(queue) :
        /\ sweep[p].pc = "loop"
        /\ sweep[p].idx = 2
        /\ sweep[p].log = <<"requeued">>
        /\ ~sOpts.priorityBoost
        /\ d.requeue_info.original_job_id = sweep[p].failedJobs[1].id
        /\ d.run = sweep[p].run
        /\ d.opts = JobOptions(3, 0, 0)
        /\ d.state = "waiting"
        /\ ~HasId(queue, sweep[p].failedJobs[1].id)

\* C18: a step of a sweep leaves every job that is not failed in the
\* queue as it is, removes only the failed job the sweeper accepted, adds
\* only the job derived from it, and changes nothing when it rejects.
C18_SweepFrame ==
    [][sweep' # sweep =>
         /\ \A j \in queue : j.state # "failed" => j \in queue'
         /\ \A j \in queue \ queue' :
              \E p \in Sweepers :
                  /\ sweep'[p] # sweep[p]
                  /\ sweep[p].pc = "remove"
                  /\ sweep[p].shouldRequeue.requeue
                  /\ CurrentJob(sweep[p]).id = j.id
         /\ \A j \in queue' \ queue :
              \E p \in Sweepers :
                  /\ AddStep(p)
                  /\ j.id = sweep'[p].jobId
                  /\ j.requeue_info.original_job_id = CurrentJob(sweep[p]).id
         /\ \A p \in Sweepers :
              (/\ sweep'[p] # sweep[p]
               /\ InLoop(p)
               /\ ~sweep'[p].shouldRequeue.requeue)
              => queue' = queue
      ]_vars

C18_Witness ==
    \E p \in Sweepers :
        /\ sweep[p].pc = "done"
        /\ \E i, k \in 1..Len(sweep[p].failedJobs) :
             /\ sweep[p].log[i] = "skipped"
             /\ sweep[p].failedJobs[i] \in queue
             /\ sweep[p].log[k] = "requeued"
             /\ ~HasId(queue, sweep[p].failedJobs[k].id)
        /\ \E j \in queue : j.state \in {"waiting", "delayed", "active", "completed"}

\* C19: every iteration of a sweep counts its job once, as requeued or as
\* skipped, a failed queue operation included, so that a sweep that has
\* returned has gone through its whole snapshot and requeued + skipped is
\* the length of the snapshot.
C19_ErrorsAreSkipped ==
    \A p \in Sweepers :
        LET s == sweep[p]
            n == Len(s.failedJobs)
        IN  /\ s.pc \in {"loop", "remove"} =>
                /\ s.requeuedCount + s.skippedCount = s.idx - 1
                /\ Len(s.log) = s.idx - 1
                /\ s.idx <= n + 1
            /\ s.pc = "remove" => s.idx <= n
            /\ s.pc = "done" =>
                /\ s.requeuedCount + s.skippedCount = n
                /\ Len(s.log) = n
            /\ s.skippedCount =
                 Cardinality({i \in DOMAIN s.log : s.log[i] # "requeued"})

C19_Witness ==
    \E p \in Sweepers :
        /\ sweep[p].pc = "done"
        /\ Len(sweep[p].failedJobs) = 2
        /\ sweep[p].log = <<"error", "requeued">>
        /\ sweep[p].requeuedCount = 1
        /\ sweep[p].skippedCount = 1

\* Two derived jobs of one failed job.
Duplicates(d, e) ==
    /\ d.id # e.id
    /\ d.requeue_info.original_job_id = e.requeue_info.original_job_id
    /\ d.requeue_info.requeue_count = e.requeue_info.requeue_count

\* C20: two derived jobs with the same origin and the same count are never
\* the work of one sweep: they come from two sweeps, which is what two
\* overlapping sweeps over the same failed set produce.
C20_DuplicatesTakeTwoSweeps ==
    \A d, e \in Derived(queue) : Duplicates(d, e) => d.run # e.run

C20_Witness ==
    /\ \A p \in Sweepers : sweep[p].pc = "done"
    /\ \E i \in DOMAIN sweep["A"].failedJobs, k \in DOMAIN sweep["B"].failedJobs :
         /\ sweep["A"].failedJobs[i] = sweep["B"].failedJobs[k]
         /\ sweep["A"].log[i] = "requeued"
         /\ sweep["B"].log[k] = "requeued"
         /\ \E d, e \in Derived(queue) :
              /\ Duplicates(d, e)
              /\ d.requeue_info.original_job_id = sweep["A"].failedJobs[i].id
              /\ d.run = sweep["A"].run
              /\ e.run = sweep["B"].run

\* Number of image entries of a group.
ImageCount(group) == IF group.images.isArray THEN Len(group.images.list) ELSE 0

\* Number of image entries of the first k groups.
RECURSIVE ImagesBefore(_, _)
ImagesBefore(groups, k) ==
    IF k = 0 THEN 0 ELSE ImagesBefore(groups, k - 1) + ImageCount(groups[k])

\* C21: the images the processor returns are the image entries of the
\* outputs, one artifact each, group after group and in list order inside a
\* group, tagged with the node id of the group; a group without an image
\* list adds nothing; outputs that are missing fail the job with the
\* empty-output error, and nothing else does.
C21_OneArtifactPerImage ==
    /\ wpc = "done" =>
         LET groups == woutputs.groups
             images == wresult.images
         IN  /\ woutputs.present
             /\ Len(images) = ImagesBefore(groups, Len(groups))
             /\ \A g \in 1..Len(groups) : \A i \in 1..ImageCount(groups[g]) :
                  images[ImagesBefore(groups, g - 1) + i] =
                      [filename |-> groups[g].images.list[i], node_id |-> groups[g].node]
    /\ (wpc = "failed" /\ progress = Thirds(90) /\ ~woutputs.present)
         => thrown = EmptyOutput
    /\ thrown = EmptyOutput => ~woutputs.present

C21_Witness ==
    /\ wpc = "done"
    /\ woutputs = Outputs(<< Group("9", Images(<<"a.png", "b.png">>)), Group("12", NoImages) >>)
    /\ wresult.images = << [filename |-> "a.png", node_id |-> "9"],
                           [filename |-> "b.png", node_id |-> "9"] >>

\* A node the seed is broadcast to: a KSampler whose inputs have a seed.
SamplingCapable(node) ==
    node.present /\ node.class_type = "KSampler" /\ node.hasInputs /\ node.hasSeed

\* C22: when the request has a numeric seed, 0 included, the workflow that
\* injection returns for a template with its nodes under `prompt` has that
\* seed in every sampling-capable node, and the seed of every other node is
\* the one of the template.
C22_SeedBroadcast ==
    (iResult.status = "returned" /\ iInputs.hasSeed /\ iFile.wrapped)
    => \A id \in NodeIds :
          IF SamplingCapable(iFile.nodes[id])
          THEN iResult.workflow.nodes[id].seed = iInputs.seed
          ELSE iResult.workflow.nodes[id].seed = iFile.nodes[id].seed

\* C23: after injection has returned or failed, for every workflow name and
\* every inputs, the object it was given is what was read from the file.
C23_TemplateUnchanged ==
    iResult.status # "none" => iWorkflow = iFile

C23_Witness ==
    /\ iResult.status = "failed"
    /\ iName = NameFashionSketch
    /\ iInputs.prompt_text = "red dress"
    /\ iResult.workflow.nodes["6"].text = <<"red dress">>
    /\ iFile.nodes["6"].text = <<"old prompt">>
    /\ iWorkflow = iFile

\* C24 as stated: the failed job is removed first and added again
\* afterwards, so that when queue.add is called for the derived job the
\* failed job is no longer in the queue.
C24_RemoveThenReAdd ==
    [][\A p \in Sweepers :
         AddStep(p) => ~HasId(queue, CurrentJob(sweep[p]).id)
      ]_vars

\* C24 amended: the derived job is added first and the failed job removed
\* afterwards; no step takes the last job of a lineage out of the queue,
\* and a crash between the two operations leaves the queue as it is.
C24_CrashNeverLoses ==
    [][/\ \A j \in queue : \E k \in queue' : OriginOf(k.id) = OriginOf(j.id)
       /\ \A p \in Sweepers :
            (sweep[p].pc = "remove" /\ sweep'[p].pc = "crashed") => queue' = queue
      ]_vars

C24_Witness ==
    \E p \in Sweepers :
        /\ sweep[p].pc = "crashed"
        /\ CurrentJob(sweep[p]) \in queue
        /\ \E d \in Derived(queue) :
             /\ d.id = sweep[p].jobId
             /\ d.requeue_info.original_job_id = CurrentJob(sweep[p]).id

\* The jobs in the queue that resubmissions of one request created.
Resubmissions(origin) == {d \in Derived(queue) : OriginOf(d.id) = origin}

\* C25: every job in the queue has a requeue_count of at most maxRetries,
\* and the jobs created by resubmitting one request are at most maxRetries.
C25_BoundedResubmission ==
    \A j \in queue :
        /\ RequeueCountOf(j) <= sOpts.maxRetries
        /\ Cardinality(Resubmissions(OriginOf(j.id))) <= sOpts.maxRetries

\* C26: with serialized sweeps no two jobs in the queue are derived from
\* the same failed job, also after a queue operation of a resubmission
\* failed.
C26_ResubmittedOnce ==
    \A d, e \in Derived(queue) :
        d.requeue_info.original_job_id = e.requeue_info.original_job_id => d = e

\* A sweep that has returned, and the index of a job in its snapshot.
Returned(p) == sweep[p].pc = "done"

IndexOf(p, job) == {i \in DOMAIN sweep[p].failedJobs : sweep[p].failedJobs[i] = job}

\* C27: with serialized sweeps, a failed job that a sweep that has returned
\* skipped is not accepted by a later sweep, and a failed job that an
\* earlier sweep accepted is rejected later only as too old.
C27_RejectionStable ==
    [][\A p, q \in Sweepers :
         (/\ p # q
          /\ Returned(q)
          /\ sweep[q].run < sweep[p].run
          /\ InLoop(p)
          /\ sweep'[p] # sweep[p])
         => LET job == CurrentJob(sweep[p])
                verdict == sweep'[p].shouldRequeue
            IN  \A i \in IndexOf(q, job) :
                  /\ sweep[q].log[i] = "skipped" => ~verdict.requeue
                  /\ (sweep[q].log[i] # "skipped" /\ ~verdict.requeue)
                       => verdict.reason = "Job muito antigo"
      ]_vars

C27_Witness ==
    /\ Returned("A")
    /\ Returned("B")
    /\ sweep["A"].run < sweep["B"].run
    /\ \E i \in DOMAIN sweep["A"].failedJobs, k \in DOMAIN sweep["B"].failedJobs :
         /\ sweep["A"].failedJobs[i] = sweep["B"].failedJobs[k]
         /\ sweep["A"].failedJobs[i] \in queue
         /\ sweep["A"].log[i] = "skipped"
         /\ sweep["B"].log[k] = "skipped"
         /\ sweep["B"].failedJobs[k].failedReason =
              WorkflowNotFoundMessage(NameFashionSketch)

=============================================================================
